---- MODULE Spec2Model ----
(***************************************************************************)
(* A model of aq's BotoSqliteEngine (src/aq/engines.py): the on-demand     *)
(* materialisation of cloud resource collections into per-region sqlite    *)
(* tables, and the helpers json_get, convert_tags_to_dict and              *)
(* get_columns_list.                                                       *)
(*                                                                         *)
(* Strings the code takes apart (table names, region names, messages) are  *)
(* sequences of tokens; "_" and "-" are tokens of their own, every other   *)
(* token is a piece of text without either separator.                      *)
(***************************************************************************)
EXTENDS Integers, Sequences, FiniteSets, TLC

\* Bounds of the model.
MaxTables == 2      \* longest meta.tables list of one execute call
MaxItems == 2       \* most items collection.all() returns
MaxKey == 3         \* largest integer key json_get is called with
MaxTags == 2        \* longest tags list convert_tags_to_dict is called with
MaxColumns == 2     \* most identifiers, and most attributes, of a resource model

(***************************************************************************)
(* Python values.  One record shape for all of them, so that any two can   *)
(* be compared: k is the type, s the text of a str (or the key of a dict   *)
(* entry), n the number of an int or bool, l the elements of a list or the *)
(* entries of a dict (each entry holding its value in l).                  *)
(***************************************************************************)
PyNone == [k |-> "none", s |-> "", n |-> 0, l |-> <<>>]
PyStr(s) == [k |-> "str", s |-> s, n |-> 0, l |-> <<>>]
PyInt(n) == [k |-> "int", s |-> "", n |-> n, l |-> <<>>]
PyBool(b) == [k |-> "bool", s |-> "", n |-> IF b THEN 1 ELSE 0, l |-> <<>>]
PyList(l) == [k |-> "list", s |-> "", n |-> 0, l |-> l]
PyEntry(key, v) == [k |-> "entry", s |-> key, n |-> 0, l |-> <<v>>]
PyDict(entries) == [k |-> "dict", s |-> "", n |-> 0, l |-> entries]
\* a str that is JSON text, by its tokens
JsonText(toks) == [k |-> "str", s |-> "", n |-> 0, l |-> toks]

\* key in d, for a dict d
DictHas(d, key) == \E i \in 1..Len(d.l) : d.l[i].s = key
\* d[key], for a dict d holding key
DictGet(d, key) == d.l[CHOOSE i \in 1..Len(d.l) : d.l[i].s = key].l[1]
\* d[key] = v: an existing entry is overwritten in place, a new one is appended
DictSet(d, key, v) ==
    IF DictHas(d, key)
    THEN PyDict([i \in 1..Len(d.l) |-> IF d.l[i].s = key THEN PyEntry(key, v) ELSE d.l[i]])
    ELSE PyDict(Append(d.l, PyEntry(key, v)))

(***************************************************************************)
(* Objects: a resource item is its attributes; an ObjectProxy is a source  *)
(* object and the fields it replaces.                                      *)
(***************************************************************************)
Resource(attrs) == [cls |-> "resource", attrs |-> attrs, source |-> <<>>]
ObjectProxy(source, replaced_fields) ==
    [cls |-> "ObjectProxy", attrs |-> replaced_fields, source |-> <<source>>]

\* the attributes ObjectProxy.__init__ sets on the proxy itself
ProxyOwnAttributes == {"source", "replaced_fields"}

\* hasattr(obj, name)
RECURSIVE HasAttr(_, _)
HasAttr(obj, name) ==
    IF obj.cls = "ObjectProxy"
    THEN \/ name \in ProxyOwnAttributes
         \/ name \in DOMAIN obj.attrs
         \/ HasAttr(obj.source[1], name)
    ELSE name \in DOMAIN obj.attrs

\* getattr(obj, name), for an attribute obj has.  Python finds the attributes
\* the proxy itself has (self.source, self.replaced_fields) without calling
\* ObjectProxy.__getattr__, which serves every other name: a replaced field
\* first, the source otherwise.
RECURSIVE GetAttr(_, _)
GetAttr(obj, name) ==
    IF obj.cls # "ObjectProxy" THEN obj.attrs[name]
    ELSE IF name = "source" THEN obj.source[1]
    ELSE IF name = "replaced_fields" THEN obj.attrs
    ELSE IF name \in DOMAIN obj.attrs THEN obj.attrs[name]
    ELSE GetAttr(obj.source[1], name)

\* The dict built by the loop of convert_tags_to_dict over tags[1..i].
RECURSIVE TagsDict(_, _)
TagsDict(tags, i) ==
    IF i = 0 THEN PyDict(<<>>)
    ELSE LET kv_dict == tags[i]
             sofar == TagsDict(tags, i - 1)
         IN IF kv_dict.k = "dict" /\ DictHas(kv_dict, "Key") /\ DictHas(kv_dict, "Value")
            THEN DictSet(sofar, DictGet(kv_dict, "Key").s, DictGet(kv_dict, "Value"))
            ELSE sofar

\* the isinstance(tags, list) check left out
convert_tags_to_dict_unchecked(item) ==
    IF HasAttr(item, "tags")
    THEN ObjectProxy(item, [tags |-> TagsDict(GetAttr(item, "tags").l, Len(GetAttr(item, "tags").l))])
    ELSE item

convert_tags_to_dict(item) ==
    IF HasAttr(item, "tags") /\ GetAttr(item, "tags").k = "list"
    THEN ObjectProxy(item, [tags |-> TagsDict(GetAttr(item, "tags").l, Len(GetAttr(item, "tags").l))])
    ELSE item

\* the tags written back to the item, in place of a new mapping
ItemAfterInPlace(item) ==
    IF HasAttr(item, "tags") /\ GetAttr(item, "tags").k = "list"
    THEN [item EXCEPT !.attrs.tags = TagsDict(GetAttr(item, "tags").l, Len(GetAttr(item, "tags").l))]
    ELSE item

\* The item as convert_tags_to_dict(item) leaves it.  The function reads the
\* item (hasattr, item.tags, the iteration over tags) and stores only into
\* objects it creates: tags_dict (lines 122, 125) and the proxy (lines
\* 102-103); nothing is stored into the item or into its list.
ItemAfter(item) == item

(***************************************************************************)
(* Token strings.                                                          *)
(***************************************************************************)
\* s.replace(old, new)
Replace(s, old, new) == [i \in 1..Len(s) |-> IF s[i] = old THEN new ELSE s[i]]

\* s.split('_', 1): the text before the first "_" and the text after it; a
\* string without "_" splits into one part only.
SplitFirst(s) ==
    IF \E i \in 1..Len(s) : s[i] = "_"
    THEN LET at == CHOOSE i \in 1..Len(s) : s[i] = "_" /\ \A j \in 1..(i - 1) : s[j] # "_"
         IN <<SubSeq(s, 1, at - 1), SubSeq(s, at + 1, Len(s))>>
    ELSE <<s>>

\* part occurs in s
Contains(s, part) ==
    \E i \in 0..(Len(s) - Len(part)) : SubSeq(s, i + 1, i + Len(part)) = part

(***************************************************************************)
(* The provider (boto3): the session's region, the resource kinds, what a  *)
(* resource object has, the resource models and the items.                 *)
(***************************************************************************)
NoDatabase == <<>>                             \* table.database of an unqualified table
session_region_name == <<"us", "-", "east", "-", "1">>
default_region == Replace(session_region_name, "-", "_")
OtherRegion == <<"eu", "_", "west", "_", "1">>
Regions == {default_region, OtherRegion}

KnownResources == {<<"ec2">>}
\* the collections of a resource object
Collections == {<<"instances">>, <<"key", "_", "pairs">>}
\* what else a resource object has: resource.meta (engines.py line 131)
OtherAttributes == {<<"meta">>}
\* hasattr(resource, collection_name)
ResourceHasAttr(collection_name) == collection_name \in Collections \cup OtherAttributes

\* collection._model.resource.model with its shape's attributes: the identifiers
\* as the model lists them, the attributes in declared order.
ResourceModel(collection_name) ==
    IF collection_name = <<"instances">>
    THEN [identifiers |-> <<"id">>, attributes |-> <<"state", "tags">>]
    ELSE [identifiers |-> <<"name">>, attributes |-> <<"key_fingerprint">>]

\* Every column name, in lexicographic order: Rank compares two names.
ColumnNames == <<"arn", "id", "key_fingerprint", "name", "state", "tags">>
Rank(name) == CHOOSE i \in 1..Len(ColumnNames) : ColumnNames[i] = name

\* names[1..n] with x inserted after the last element not greater than it
RECURSIVE Insert(_, _)
Insert(names, x) ==
    IF names = <<>> THEN <<x>>
    ELSE IF Rank(names[Len(names)]) <= Rank(x) THEN Append(names, x)
    ELSE Append(Insert(SubSeq(names, 1, Len(names) - 1), x), names[Len(names)])

RECURSIVE sorted(_)
sorted(names) ==
    IF names = <<>> THEN <<>>
    ELSE Insert(sorted(SubSeq(names, 1, Len(names) - 1)), names[Len(names)])

\* the identifiers chained as the model lists them, the sort left out
get_columns_list_unsorted(model) == model.identifiers \o model.attributes

get_columns_list(model) == sorted(model.identifiers) \o model.attributes

ItemIds == <<"i-1", "i-2", "i-3", "i-4">>
TagRecord(key, value) == PyDict(<<PyEntry("Key", PyStr(key)), PyEntry("Value", PyStr(value))>>)
\* the i-th item of a collection
Item(collection_name, i) ==
    IF collection_name = <<"instances">>
    THEN Resource([id |-> PyStr(ItemIds[i]), state |-> PyStr("running"),
                   tags |-> IF i % 2 = 1 THEN PyList(<<TagRecord("env", "prod")>>) ELSE PyNone])
    ELSE Resource([name |-> PyStr(ItemIds[i]), key_fingerprint |-> PyStr("ab:cd")])
\* collection.all() of a collection holding n items
AllItems(collection_name, n) == [i \in 1..n |-> Item(collection_name, i)]

(***************************************************************************)
(* The relational engine (sqlite3): the databases of the session, the      *)
(* tables of each database file, and what a query returns.                 *)
(***************************************************************************)
\* '~/.aq/{}.db'.format(region)
DbPath(region) == <<"~/.aq/">> \o region \o <<".db">>
Files == {DbPath(r) : r \in Regions}
CachedTableNames == {<<"ec2", "_">> \o c : c \in Collections}

NoTable == [exists |-> FALSE, columns |-> <<>>, rows |-> <<>>]
Table(columns, rows) == [exists |-> TRUE, columns |-> columns, rows |-> rows]

\* PRAGMA database_list after sqlite3.connect(path): the file is "main"
Connect(path) == <<[name |-> <<"main">>, file |-> path]>>
\* ATTACH DATABASE path AS name
AttachDatabase(dbs, path, name) == Append(dbs, [name |-> name, file |-> path])

\* the file a schema name stands for (the first database of that name)
FileOf(dbs, schema_name) ==
    dbs[CHOOSE i \in 1..Len(dbs) :
            dbs[i].name = schema_name /\ \A j \in 1..(i - 1) : dbs[j].name # schema_name].file

\* What the engine answers, or the error it raises.
Answer(columns, rows) == [class |-> "ok", msg |-> <<>>, columns |-> columns, rows |-> rows]
EngineError(class, msg) == [class |-> class, msg |-> msg, columns |-> <<>>, rows |-> <<>>]

\* schema.table or table, as SQL text
TableText(ref) ==
    IF ref.database = NoDatabase THEN ref.table ELSE ref.database \o <<".">> \o ref.table

\* The databases in which the engine looks for the table of a query: the one
\* named, or every database in the order of the listing.
Candidates(dbs, st, ref) ==
    {i \in 1..Len(dbs) :
        /\ ref.database # NoDatabase => dbs[i].name = ref.database
        /\ ref.table \in DOMAIN st[dbs[i].file]
        /\ st[dbs[i].file][ref.table].exists}

\* db.execute(query) with cursor.description and cursor.fetchall()
EngineExecute(dbs, st, q) ==
    IF q.kind = "multi"
    THEN EngineError("ProgrammingError", <<"You can only execute one statement at a time.">>)
    ELSE IF q.kind = "syntax"
    THEN EngineError("OperationalError", <<"near \"selec\": syntax error">>)
    ELSE IF Candidates(dbs, st, q.from) = {}
    THEN EngineError("OperationalError", <<"no such table: ">> \o TableText(q.from))
    ELSE LET i == CHOOSE i \in Candidates(dbs, st, q.from) :
                      \A j \in Candidates(dbs, st, q.from) : i <= j
             t == st[dbs[i].file][q.from.table]
         IN Answer(t.columns, t.rows)

\* Whether the engine rejected the query as bad SQL (syntax) or as naming
\* something that does not exist (semantic).
Rejection(q, e) ==
    IF e.class = "ok" THEN "none"
    ELSE IF q.kind = "syntax" THEN "syntax"
    ELSE IF q.kind = "select" THEN "semantic"
    ELSE "other"

(***************************************************************************)
(* aq.sqlite_util                                                          *)
(***************************************************************************)
\* create_table(db, schema_name, table_name, columns): the table is created,
\* or replaced, with that column list and no rows.
create_table(dbs, st, schema_name, table_name, columns) ==
    [st EXCEPT ![FileOf(dbs, schema_name)][table_name] = Table(columns, <<>>)]

\* the value insert_all stores for a column: None for an attribute the item lacks
FieldValue(item, column) == IF HasAttr(item, column) THEN GetAttr(item, column) ELSE PyNone

\* the rows insert_all makes of the items: a row per item, a value per column
Rows(columns, items) ==
    [i \in 1..Len(items) |-> [c \in 1..Len(columns) |-> FieldValue(items[i], columns[c])]]

\* insert_all(db, schema_name, table_name, columns, items)
insert_all(dbs, st, schema_name, table_name, columns, items) ==
    [st EXCEPT ![FileOf(dbs, schema_name)][table_name].rows = @ \o Rows(columns, items)]

(***************************************************************************)
(* BotoSqliteEngine                                                        *)
(***************************************************************************)
VARIABLES
    databases,  \* PRAGMA database_list of self.db: <<[name, file], ...>>
    store,      \* the committed tables of every database file
    pc,         \* where execute stands: "idle", "load", "created", "fetched"
    queue,      \* the tables of meta.tables load_tables has yet to load
    loaded,     \* the loads execute has completed: <<[table, items], ...>>
    cur,        \* the refresh in progress: schema, table, the resource's region and
                \* collection, columns, items
    prior,      \* the table as it was when the refresh in progress began
    query,      \* the query execute submitted to the engine
    engine,     \* what the engine answered to it
    result,     \* what the last call returned or raised
    attached,   \* the regions attach_region was called with
    seen,       \* what a concurrent reader of the table being refreshed last read
    arg,        \* the arguments of a call of one of the module's functions
    ret         \* what that call returned or raised

vars == <<databases, store, pc, queue, loaded, cur, prior, query, engine, result,
          attached, seen, arg, ret>>

\* What a call returns or raises.
NoResult == [kind |-> "none", msg |-> <<>>, columns |-> <<>>, rows |-> <<>>]
Returned(columns, rows) == [kind |-> "ok", msg |-> <<>>, columns |-> columns, rows |-> rows]
Raised(kind, msg) == [kind |-> kind, msg |-> msg, columns |-> <<>>, rows |-> <<>>]

NoQuery == [kind |-> "none", from |-> [database |-> NoDatabase, table |-> <<>>]]
NoRefresh == [schema_name |-> <<>>, table_name |-> <<>>, region_name |-> <<>>,
              collection_name |-> <<>>, columns |-> <<>>, items |-> <<>>]
NotSeen == [read |-> FALSE, table |-> NoTable]

\* The table references of a query's metadata, and the queries.
TableRefs ==
    {[database |-> NoDatabase, table |-> <<"ec2", "_", "instances">>],
     [database |-> OtherRegion, table |-> <<"ec2", "_", "key", "_", "pairs">>],
     [database |-> OtherRegion, table |-> <<"ec2", "_", "volumes">>],
     [database |-> NoDatabase, table |-> <<"ec2", "_", "meta">>],
     [database |-> NoDatabase, table |-> <<"ec2">>],
     [database |-> NoDatabase, table |-> <<"sqs", "_", "queues">>]}
MetaTables == UNION {[1..n -> TableRefs] : n \in 0..MaxTables}
Queries ==
    {[kind |-> "select", from |-> [database |-> d, table |-> t]] :
        d \in {NoDatabase, OtherRegion}, t \in CachedTableNames}
    \cup {[kind |-> k, from |-> NoQuery.from] : k \in {"syntax", "multi"}}

is_attached_region_never(dbs, region) == FALSE

is_attached_region(dbs, region) == \E i \in 1..Len(dbs) : dbs[i].name = region

\* the database attached last is detached to make room for the new one
attach_region_replacing(dbs, region) ==
    IF ~is_attached_region(dbs, region)
    THEN AttachDatabase(SubSeq(dbs, 1, 1), DbPath(region), region)
    ELSE dbs

\* attach_region(region): the database listing afterwards
attach_region(dbs, region) ==
    IF ~is_attached_region(dbs, region)
    THEN AttachDatabase(dbs, DbPath(region), region)
    ELSE dbs

is_fresh_enough_always(schema_name, table_name) == TRUE

is_fresh_enough(schema_name, table_name) == FALSE

\* 'Unknown collection <{}> of resource <{}>'.format(collection_name, resource_name)
UnknownCollection(collection_name, resource_name) ==
    <<"Unknown collection <">> \o collection_name \o <<"> of resource <">>
        \o resource_name \o <<">">>

CaughtProgrammingError == {"ProgrammingError"}

\* the sqlite3 errors execute turns into a QueryError
Caught == {"OperationalError"}

NoCall == [fn |-> "none"]

\* __init__: init_db connects to the default region's file, then attach_region
\* attaches the default region.  The files hold no table yet.
EngineInit ==
    /\ databases = attach_region(Connect(DbPath(default_region)), default_region)
    /\ store = [f \in Files |-> [t \in CachedTableNames |-> NoTable]]
    /\ pc = "idle"
    /\ queue = <<>>
    /\ loaded = <<>>
    /\ cur = NoRefresh
    /\ prior = NoTable
    /\ query = NoQuery
    /\ engine = Answer(<<>>, <<>>)
    /\ result = NoResult
    /\ attached = {default_region}
    /\ seen = NotSeen

Init ==
    /\ EngineInit
    /\ arg = NoCall
    /\ ret = NoCall

\* execute(query, metadata) is called: load_tables starts on meta.tables.
Execute(tables) ==
    /\ pc = "idle"
    /\ pc' = "load"
    /\ queue' = tables
    /\ loaded' = <<>>
    /\ cur' = NoRefresh
    /\ prior' = NoTable
    /\ query' = NoQuery
    /\ engine' = Answer(<<>>, <<>>)
    /\ result' = NoResult
    /\ seen' = NotSeen
    /\ UNCHANGED <<databases, store, attached, arg, ret>>

\* the exception swallowed: load_tables goes on to the next table
RaiseAndGoOn(error) ==
    /\ pc' = "load"
    /\ result' = error
    /\ queue' = Tail(queue)
    /\ UNCHANGED loaded

\* An exception leaves execute: the call is over.
Raise(error) ==
    /\ pc' = "idle"
    /\ result' = error
    /\ UNCHANGED <<queue, loaded>>

\* load_table with attach_region moved before the hasattr check
LoadTableAttachFirst ==
    /\ pc = "load"
    /\ queue # <<>>
    /\ LET table == Head(queue)
           region == IF table.database # NoDatabase THEN table.database ELSE default_region
           parts == SplitFirst(table.table)
       IN IF Len(parts) # 2
          THEN /\ Raise(Raised("ValueError", <<"need more than 1 value to unpack">>))
               /\ UNCHANGED <<databases, store, cur, prior, attached>>
          ELSE
          LET resource_name == parts[1]
              collection_name == parts[2]
              boto_region_name == Replace(region, "_", "-")
          IN IF resource_name \notin KnownResources
             THEN /\ Raise(Raised("ResourceNotExistsError", resource_name))
                  /\ UNCHANGED <<databases, store, cur, prior, attached>>
             ELSE IF ~ResourceHasAttr(collection_name)
             THEN /\ Raise(Raised("QueryError", UnknownCollection(collection_name, resource_name)))
                  /\ databases' = attach_region(databases, region)
                  /\ attached' = attached \cup {region}
                  /\ UNCHANGED <<store, cur, prior>>
             ELSE
             \* attach_region(region)
             /\ databases' = attach_region(databases, region)
             /\ attached' = attached \cup {region}
             \* refresh_table(region, table.table, resource, collection)
             /\ IF is_fresh_enough(region, table.table)
                THEN /\ queue' = Tail(queue)
                     /\ loaded' = Append(loaded, [table |-> table, fresh |-> TRUE, items |-> <<>>])
                     /\ UNCHANGED <<store, pc, cur, prior, result>>
                ELSE IF collection_name \notin Collections
                \* get_resource_model: resource.meta has no _model
                THEN /\ Raise(Raised("AttributeError", <<"_model">>))
                     /\ UNCHANGED <<store, cur, prior>>
                ELSE
                LET columns == get_columns_list(ResourceModel(collection_name))
                IN \* with self.db: create_table(...).  Its statements are DDL, for
                   \* which sqlite3 opens no transaction: they are committed as
                   \* they run.
                   /\ store' = create_table(databases', store, region, table.table, columns)
                   /\ prior' = store[FileOf(databases', region)][table.table]
                   /\ cur' = [schema_name |-> region, table_name |-> table.table,
                              region_name |-> boto_region_name,
                              collection_name |-> collection_name,
                              columns |-> columns, items |-> <<>>]
                   /\ pc' = "created"
                   /\ UNCHANGED <<queue, loaded, result>>
    /\ UNCHANGED <<query, engine, seen, arg, ret>>

\* load_table(table) up to create_table, for the next table of meta.tables.
LoadTable ==
    /\ pc = "load"
    /\ queue # <<>>
    /\ LET table == Head(queue)
           region == IF table.database # NoDatabase THEN table.database ELSE default_region
           parts == SplitFirst(table.table)
       IN IF Len(parts) # 2
          THEN /\ Raise(Raised("ValueError", <<"need more than 1 value to unpack">>))
               /\ UNCHANGED <<databases, store, cur, prior, attached>>
          ELSE
          LET resource_name == parts[1]
              collection_name == parts[2]
              boto_region_name == Replace(region, "_", "-")
          IN IF resource_name \notin KnownResources
             THEN /\ Raise(Raised("ResourceNotExistsError", resource_name))
                  /\ UNCHANGED <<databases, store, cur, prior, attached>>
             ELSE IF ~ResourceHasAttr(collection_name)
             THEN /\ Raise(Raised("QueryError", UnknownCollection(collection_name, resource_name)))
                  /\ UNCHANGED <<databases, store, cur, prior, attached>>
             ELSE
             \* attach_region(region)
             /\ databases' = attach_region(databases, region)
             /\ attached' = attached \cup {region}
             \* refresh_table(region, table.table, resource, collection)
             /\ IF is_fresh_enough(region, table.table)
                THEN /\ queue' = Tail(queue)
                     /\ loaded' = Append(loaded, [table |-> table, fresh |-> TRUE, items |-> <<>>])
                     /\ UNCHANGED <<store, pc, cur, prior, result>>
                ELSE IF collection_name \notin Collections
                \* get_resource_model: resource.meta has no _model
                THEN /\ Raise(Raised("AttributeError", <<"_model">>))
                     /\ UNCHANGED <<store, cur, prior>>
                ELSE
                LET columns == get_columns_list(ResourceModel(collection_name))
                IN \* with self.db: create_table(...).  Its statements are DDL, for
                   \* which sqlite3 opens no transaction: they are committed as
                   \* they run.
                   /\ store' = create_table(databases', store, region, table.table, columns)
                   /\ prior' = store[FileOf(databases', region)][table.table]
                   /\ cur' = [schema_name |-> region, table_name |-> table.table,
                              region_name |-> boto_region_name,
                              collection_name |-> collection_name,
                              columns |-> columns, items |-> <<>>]
                   /\ pc' = "created"
                   /\ UNCHANGED <<queue, loaded, result>>
    /\ UNCHANGED <<query, engine, seen, arg, ret>>

\* items = collection.all(): the provider answers with the collection's items.
CollectionAll ==
    /\ pc = "created"
    /\ \E n \in 0..MaxItems :
           cur' = [cur EXCEPT !.items = AllItems(cur.collection_name, n)]
    /\ pc' = "fetched"
    /\ UNCHANGED <<databases, store, queue, loaded, prior, query, engine, result,
                   attached, seen, arg, ret>>

\* items = collection.all(): the provider fails.  The with block rolls back
\* the open transaction, of which there is none, and the error leaves execute.
CollectionAllFails ==
    /\ pc = "created"
    /\ Raise(Raised("ProviderError", <<"could not connect to the endpoint">>))
    /\ UNCHANGED <<databases, store, cur, prior, query, engine, attached, seen, arg, ret>>

\* convert_tags_to_dict on every item, insert_all, and the commit that ends
\* the with block; load_tables goes on to the next table.
InsertAll ==
    /\ pc = "fetched"
    /\ LET items == [i \in 1..Len(cur.items) |-> convert_tags_to_dict(cur.items[i])]
       IN store' = insert_all(databases, store, cur.schema_name, cur.table_name,
                              cur.columns, items)
    /\ loaded' = Append(loaded, [table |-> Head(queue), fresh |-> FALSE, items |-> cur.items])
    /\ queue' = Tail(queue)
    /\ pc' = "load"
    /\ cur' = NoRefresh
    /\ prior' = NoTable
    /\ seen' = NotSeen
    /\ UNCHANGED <<databases, query, engine, result, attached, arg, ret>>

\* what execute makes of the engine's answer to the query
ExecuteResult(e) ==
    IF e.class = "ok" THEN Returned(e.columns, e.rows)
    ELSE IF e.class \in Caught THEN Raised("QueryError", e.msg)
    ELSE Raised(e.class, e.msg)

\* load_tables is done: execute submits the query and returns or raises.
Submit(q) ==
    /\ pc = "load"
    /\ queue = <<>>
    /\ query' = q
    /\ engine' = EngineExecute(databases, store, q)
    /\ result' = ExecuteResult(engine')
    /\ pc' = "idle"
    /\ UNCHANGED <<databases, store, queue, loaded, cur, prior, attached, seen, arg, ret>>

\* attach_region(region), called on its own.
AttachRegion(region) ==
    /\ pc = "idle"
    /\ databases' = attach_region(databases, region)
    /\ attached' = attached \cup {region}
    /\ UNCHANGED <<store, pc, queue, loaded, cur, prior, query, engine, result, seen,
                   arg, ret>>

\* Another connection to the file reads the table being refreshed: it sees
\* what is committed.
Reader ==
    /\ pc \in {"created", "fetched"}
    /\ ~seen.read
    /\ seen' = [read |-> TRUE,
                table |-> store[FileOf(databases, cur.schema_name)][cur.table_name]]
    /\ UNCHANGED <<databases, store, pc, queue, loaded, cur, prior, query, engine,
                   result, attached, arg, ret>>

Next ==
    \/ \E tables \in MetaTables : Execute(tables)
    \/ LoadTable
    \/ CollectionAll
    \/ CollectionAllFails
    \/ InsertAll
    \/ \E q \in Queries : Submit(q)
    \/ \E region \in Regions : AttachRegion(region)
    \/ Reader

Spec == Init /\ [][Next]_vars

(***************************************************************************)
(* Properties of the engine                                                *)
(***************************************************************************)
\* the region a table reference stands for
RegionOf(table) == IF table.database # NoDatabase THEN table.database ELSE default_region
SameTable(a, b) == RegionOf(a) = RegionOf(b) /\ a.table = b.table
\* the loads of table ref that this execute has completed
LoadsOf(ref) == {i \in 1..Len(loaded) : SameTable(loaded[i].table, ref)}
LastLoadOf(ref) == loaded[CHOOSE i \in LoadsOf(ref) : \A j \in LoadsOf(ref) : j <= i]
\* execute is over and the engine was given the query
Submitted == pc = "idle" /\ query.kind # "none"

\* C1: when execute has loaded a table and then runs select * on it, the
\* query succeeds, returns as many rows as collection.all() gave at that load
\* (whatever earlier loads had put in the table), and its columns are
\* get_columns_list of the collection's model.
C1_LoadThenSelectAll ==
    (Submitted /\ query.kind = "select" /\ LoadsOf(query.from) # {}) =>
        /\ result.kind = "ok"
        /\ Len(result.rows) = Len(LastLoadOf(query.from).items)
        /\ result.columns = get_columns_list(ResourceModel(SplitFirst(query.from.table)[2]))

\* A table loaded with two items by an earlier load, reloaded with one item
\* and selected: one row comes back.
C1_Witness ==
    /\ Submitted /\ query.kind = "select" /\ result.kind = "ok"
    /\ Len(loaded) = 2
    /\ SameTable(loaded[1].table, query.from) /\ SameTable(loaded[2].table, query.from)
    /\ Len(loaded[1].items) = 2 /\ Len(loaded[2].items) = 1
    /\ Len(result.rows) = 1

\* the table the refresh in progress is about to commit
NewTable ==
    Table(cur.columns,
          Rows(cur.columns, [i \in 1..Len(cur.items) |-> convert_tags_to_dict(cur.items[i])]))

RefreshedTable == store[FileOf(databases, cur.schema_name)][cur.table_name]

C4_AttachIdempotent ==
    /\ \A r \in attached :
           Cardinality({i \in 1..Len(databases) : databases[i].name = r}) = 1
    /\ Len(databases) = 1 + Cardinality(attached)

\* execute has loaded a table of the default region, which the constructor
\* had attached already, and a table of the other region.
C4_Witness ==
    /\ pc = "idle"
    /\ \E i \in 1..Len(loaded) : RegionOf(loaded[i].table) = default_region
    /\ \E i \in 1..Len(loaded) : RegionOf(loaded[i].table) = OtherRegion
    /\ Len(databases) = 3

\* load_table raised while loading the table at the head of the queue
LoadFailed == pc = "idle" /\ queue # <<>> /\ result.kind \notin {"none", "ok"}
\* a table name of a known resource kind whose collection the kind does not have
UnknownCollectionName(table_name) ==
    /\ Len(SplitFirst(table_name)) = 2
    /\ SplitFirst(table_name)[1] \in KnownResources
    /\ SplitFirst(table_name)[2] \notin Collections

\* C5: loading a table whose collection its resource kind does not have raises
\* a QueryError whose message holds the resource kind and the collection name.
C5_UnknownCollectionIsQueryError ==
    (LoadFailed /\ UnknownCollectionName(Head(queue).table)) =>
        /\ result.kind = "QueryError"
        /\ Contains(result.msg, SplitFirst(Head(queue).table)[1])
        /\ Contains(result.msg, SplitFirst(Head(queue).table)[2])

JsonStrings == {"a", "b", "ab"}
JsonNumbers == {1, 2, 10, 20}
Quoted(s) == "\"" \o s \o "\""

IsLiteral(tok) ==
    \/ tok \in {"null", "true", "false"}
    \/ \E s \in JsonStrings : tok = Quoted(s)
    \/ \E n \in JsonNumbers : tok = ToString(n)
IsStringLiteral(tok) == \E s \in JsonStrings : tok = Quoted(s)
\* the text of a string literal
Unquoted(tok) == CHOOSE s \in JsonStrings : tok = Quoted(s)
\* the Python value of a literal
LiteralValue(tok) ==
    IF tok = "null" THEN PyNone
    ELSE IF tok = "true" THEN PyBool(TRUE)
    ELSE IF tok = "false" THEN PyBool(FALSE)
    ELSE IF IsStringLiteral(tok) THEN PyStr(Unquoted(tok))
    ELSE PyInt(CHOOSE n \in JsonNumbers : tok = ToString(n))

\* the first position from i on that holds no blank
RECURSIVE SkipBlanks(_, _)
SkipBlanks(toks, i) ==
    IF i <= Len(toks) /\ toks[i] = " " THEN SkipBlanks(toks, i + 1) ELSE i

NoParse == [ok |-> FALSE, val |-> PyNone, next |-> 0]
Parsed(val, next) == [ok |-> TRUE, val |-> val, next |-> next]

\* The decoder: the value that starts at position i, and where it ends.
RECURSIVE ParseValue(_, _)
RECURSIVE ParseElements(_, _, _)
RECURSIVE ParseMembers(_, _, _)
ParseValue(toks, i0) ==
    LET i == SkipBlanks(toks, i0)
    IN IF i > Len(toks) THEN NoParse
       ELSE IF IsLiteral(toks[i]) THEN Parsed(LiteralValue(toks[i]), i + 1)
       ELSE IF toks[i] = "["
       THEN LET j == SkipBlanks(toks, i + 1)
            IN IF j <= Len(toks) /\ toks[j] = "]" THEN Parsed(PyList(<<>>), j + 1)
               ELSE ParseElements(toks, i + 1, <<>>)
       ELSE IF toks[i] = "{"
       THEN LET j == SkipBlanks(toks, i + 1)
            IN IF j <= Len(toks) /\ toks[j] = "}" THEN Parsed(PyDict(<<>>), j + 1)
               ELSE ParseMembers(toks, i + 1, PyDict(<<>>))
       ELSE NoParse

\* the elements of an array from position i on, after those of acc
ParseElements(toks, i, acc) ==
    LET v == ParseValue(toks, i)
        j == SkipBlanks(toks, v.next)
    IN IF ~v.ok \/ j > Len(toks) THEN NoParse
       ELSE IF toks[j] = "," THEN ParseElements(toks, j + 1, Append(acc, v.val))
       ELSE IF toks[j] = "]" THEN Parsed(PyList(Append(acc, v.val)), j + 1)
       ELSE NoParse

\* the members of an object from position i on, after those of acc: a later
\* member replaces an earlier one of the same name
ParseMembers(toks, i, acc) ==
    LET k == SkipBlanks(toks, i)
        c == SkipBlanks(toks, k + 1)
        v == ParseValue(toks, c + 1)
        j == SkipBlanks(toks, v.next)
    IN IF k > Len(toks) \/ ~IsStringLiteral(toks[k]) THEN NoParse
       ELSE IF c > Len(toks) \/ toks[c] # ":" THEN NoParse
       ELSE IF ~v.ok \/ j > Len(toks) THEN NoParse
       ELSE IF toks[j] = ","
       THEN ParseMembers(toks, j + 1, DictSet(acc, Unquoted(toks[k]), v.val))
       ELSE IF toks[j] = "}"
       THEN Parsed(DictSet(acc, Unquoted(toks[k]), v.val), j + 1)
       ELSE NoParse

\* json.loads(text): the value, or no value (ValueError) when the text is not
\* one JSON value and blanks
json_loads(toks) ==
    LET v == ParseValue(toks, 1)
    IN IF v.ok /\ SkipBlanks(toks, v.next) > Len(toks) THEN v ELSE NoParse

\* json.dumps(value): ", " between items and ": " after a key
RECURSIVE json_dumps(_)
RECURSIVE DumpItems(_, _)
json_dumps(v) ==
    IF v.k = "none" THEN <<"null">>
    ELSE IF v.k = "bool" THEN (IF v.n = 1 THEN <<"true">> ELSE <<"false">>)
    ELSE IF v.k = "int" THEN <<ToString(v.n)>>
    ELSE IF v.k = "str" THEN <<Quoted(v.s)>>
    ELSE IF v.k = "list" THEN <<"[">> \o DumpItems(v.l, Len(v.l)) \o <<"]">>
    ELSE <<"{">> \o DumpItems(v.l, Len(v.l)) \o <<"}">>
\* the first n items of a list or entries of a dict
DumpItems(items, n) ==
    IF n = 0 THEN <<>>
    ELSE (IF n = 1 THEN <<>> ELSE DumpItems(items, n - 1) \o <<",", " ">>)
         \o (IF items[n].k = "entry"
             THEN <<Quoted(items[n].s), ":", " ">> \o json_dumps(items[n].l[1])
             ELSE json_dumps(items[n]))

(***************************************************************************)
(* json_get                                                                *)
(***************************************************************************)
Return(value) == [kind |-> "return", value |-> value, error |-> ""]
Throw(error) == [kind |-> "raise", value |-> PyNone, error |-> error]
NotCalled == [kind |-> "none", value |-> PyNone, error |-> ""]

\* the characters of a str
Chars(s) == IF s = "" THEN <<>> ELSE IF s = "ab" THEN <<"a", "b">> ELSE <<s>>

\* isinstance(field, int)
IsInt(field) == field.k \in {"int", "bool"}

IsScalarNoBool(res) == res.k \in {"int", "str"}
IsScalarOrNone(res) == res.k \in {"int", "bool", "str", "none"}

\* isinstance(res, (int, float, string_types))
IsScalar(res) == res.k \in {"int", "bool", "str"}

\* obj[field] if 0 <= field < len(obj) else None
IndexAccess(obj, field) ==
    IF ~(0 <= field.n) THEN Return(PyNone)
    ELSE IF obj.k \in {"int", "bool"} THEN Throw("TypeError")       \* len(obj)
    ELSE IF obj.k = "str"
    THEN (IF field.n < Len(Chars(obj.s)) THEN Return(PyStr(Chars(obj.s)[field.n + 1]))
          ELSE Return(PyNone))
    ELSE IF ~(field.n < Len(obj.l)) THEN Return(PyNone)
    ELSE IF obj.k = "list" THEN Return(obj.l[field.n + 1])
    ELSE Throw("KeyError")                                         \* a dict has str keys

\* obj.get(field)
FieldAccess(obj, field) ==
    IF obj.k # "dict" THEN Throw("AttributeError")
    ELSE IF DictHas(obj, field.s) THEN Return(DictGet(obj, field.s))
    ELSE Return(PyNone)

json_get(serialized_object, field) ==
    IF serialized_object.k = "none" THEN Return(JsonText(<<"null">>))
    ELSE IF serialized_object.k # "str" THEN Throw("TypeError")   \* json.loads of a number
    ELSE IF ~json_loads(serialized_object.l).ok THEN Throw("ValueError")
    ELSE LET obj == json_loads(serialized_object.l).val
             res == IF IsInt(field) THEN IndexAccess(obj, field) ELSE FieldAccess(obj, field)
         IN IF obj.k = "none" THEN Return(JsonText(<<"null">>))
            ELSE IF res.kind = "raise" THEN res
            ELSE IF ~IsScalar(res.value) THEN Return(JsonText(json_dumps(res.value)))
            ELSE res

\* The calls of json_get: the first argument is NULL, a number, JSON text as
\* json.dumps writes it, the same text without blanks, or text that is no JSON.
JsonValues ==
    {PyNone, PyBool(TRUE), PyInt(1), PyStr("ab"),
     PyList(<<>>), PyList(<<PyInt(10), PyInt(20)>>),
     PyList(<<PyDict(<<PyEntry("a", PyInt(1))>>), PyNone, PyStr("b")>>),
     PyDict(<<>>), PyDict(<<PyEntry("a", PyInt(1))>>),
     PyDict(<<PyEntry("a", PyDict(<<PyEntry("b", PyInt(1))>>)), PyEntry("b", PyNone)>>),
     PyDict(<<PyEntry("a", PyStr("b")), PyEntry("ab", PyList(<<PyInt(1), PyInt(2)>>))>>),
     PyDict(<<PyEntry("a", PyBool(FALSE))>>)}
NoBlanks(toks) == SelectSeq(toks, LAMBDA t : t # " ")
Malformed ==
    {<<>>, <<"{">>, <<"[", "1", ",", "]">>, <<"{", Quoted("a"), ":", "}">>, <<"1", "2">>}
\* an object that names a member twice
Repeated == <<"{", Quoted("a"), ":", "1", ",", Quoted("a"), ":", "[", "2", "]", "}">>
Serialized ==
    {PyNone, PyInt(1)}
    \cup {JsonText(json_dumps(v)) : v \in JsonValues}
    \cup {JsonText(NoBlanks(json_dumps(v))) : v \in JsonValues}
    \cup {JsonText(toks) : toks \in Malformed \cup {Repeated}}
Fields == {PyInt(n) : n \in (0 - 1)..MaxKey} \cup {PyStr(s) : s \in JsonStrings}

JsonInit ==
    /\ EngineInit
    /\ arg \in {[fn |-> "json_get", serialized_object |-> so, field |-> f] :
                    so \in Serialized, f \in Fields}
    /\ ret = NotCalled

\* the engine calls json_get(serialized_object, field)
JsonGet ==
    /\ ret = NotCalled
    /\ ret' = json_get(arg.serialized_object, arg.field)
    /\ UNCHANGED <<databases, store, pc, queue, loaded, cur, prior, query, engine,
                   result, attached, seen, arg>>

JsonNext == JsonGet

SpecJson == JsonInit /\ [][JsonNext]_vars

\* json_get has been called
Called == ret.kind # "none"
\* the first argument is text that decodes, and what it decodes to
Decodes == arg.serialized_object.k = "str" /\ json_loads(arg.serialized_object.l).ok
Decoded == json_loads(arg.serialized_object.l).val
\* a string key the decoded object does not have
MissingKey ==
    /\ Decodes /\ Decoded.k = "dict"
    /\ arg.field.k = "str" /\ ~DictHas(Decoded, arg.field.s)
\* an integer key outside the decoded array
OutOfRange ==
    /\ Decodes /\ Decoded.k = "list"
    /\ arg.field.k = "int" /\ ~(0 <= arg.field.n /\ arg.field.n < Len(Decoded.l))
\* a string key the decoded object has, or an integer key inside the decoded array
Present ==
    /\ Decodes
    /\ \/ Decoded.k = "dict" /\ arg.field.k = "str" /\ DictHas(Decoded, arg.field.s)
       \/ Decoded.k = "list" /\ arg.field.k = "int"
            /\ 0 <= arg.field.n /\ arg.field.n < Len(Decoded.l)
\* the value of that key
Resolved ==
    IF Decoded.k = "dict" THEN DictGet(Decoded, arg.field.s) ELSE Decoded.l[arg.field.n + 1]
NullText == JsonText(<<"null">>)

\* C7, as claimed: for a string key the object does not have and for an
\* integer key outside the array, json_get returns null (None, SQL NULL).
C7_MissingIsNull ==
    (Called /\ (MissingKey \/ OutOfRange)) => ret = Return(PyNone)

\* C7, amended: for a string key the object does not have and for an integer
\* key outside the array, json_get returns the string "null".
C7_MissingIsNullText ==
    (Called /\ (MissingKey \/ OutOfRange)) => ret = Return(NullText)

\* json_get('[10,20]', 3)
C7_Witness ==
    /\ Called /\ OutOfRange
    /\ arg.serialized_object = JsonText(<<"[", "10", ",", "20", "]">>)
    /\ arg.field = PyInt(3)
    /\ ret = Return(NullText)

\* C8: for NULL and for text that decodes to null the result is the string
\* "null"; for a key that is present, a number, a boolean or a string is
\* returned as it is and any other value as its JSON text.
C8_ResultByKind ==
    Called =>
        /\ (arg.serialized_object.k = "none" \/ (Decodes /\ Decoded.k = "none")) =>
               ret = Return(NullText)
        /\ (Present /\ Resolved.k \in {"int", "bool", "str"}) => ret = Return(Resolved)
        /\ (Present /\ Resolved.k \notin {"int", "bool", "str"}) =>
               ret = Return(JsonText(json_dumps(Resolved)))

\* json_get('{"a":{"b":1},"b":null}', 'a') is the text {"b": 1}
C8_Witness ==
    /\ Called /\ Present
    /\ arg.field = PyStr("a")
    /\ Resolved = PyDict(<<PyEntry("b", PyInt(1))>>)
    /\ arg.serialized_object.l # json_dumps(Decoded)
    /\ ret = Return(JsonText(<<"{", Quoted("b"), ":", " ", "1", "}">>))

\* C9: when the first argument is not NULL and does not decode, json_get
\* raises a QueryError.
C9_MalformedIsQueryError ==
    (Called /\ arg.serialized_object.k # "none" /\ ~Decodes) =>
        (ret.kind = "raise" /\ ret.error = "QueryError")

(***************************************************************************)
(* convert_tags_to_dict                                                    *)
(***************************************************************************)
\* The elements of a tags list: key/value records, a record without a value,
\* one without a key, and values that are no records.
TagElements ==
    {TagRecord(key, value) : key \in {"env", "name"}, value \in {"prod", "dev"}}
    \cup {PyDict(<<PyEntry("Key", PyStr("env"))>>), PyDict(<<PyEntry("Value", PyStr("prod"))>>),
          PyStr("env"), PyNone}
TagLists == UNION {[1..n -> TagElements] : n \in 0..MaxTags}
\* The items: without a tags attribute, with tags that is no list, with a list.
TagItems ==
    {Resource([id |-> PyStr("i-1")])}
    \cup {Resource([id |-> PyStr("i-1"), tags |-> t]) :
            t \in {PyNone, PyStr("env"), PyDict(<<PyEntry("env", PyStr("prod"))>>)}}
    \cup {Resource([id |-> PyStr("i-1"), tags |-> PyList(l)]) : l \in TagLists}
    \cup {Resource([id |-> PyStr("i-1"), source |-> PyStr("snap-1"), tags |-> PyList(l)]) :
            l \in TagLists}
\* the names of the fields of the items
FieldNames == {"id", "source", "tags"}

TagsInit ==
    /\ EngineInit
    /\ arg \in {[fn |-> "convert_tags_to_dict", item |-> item] : item \in TagItems}
    /\ ret = NotCalled

\* convert_tags_to_dict(item) is called
ConvertTags ==
    /\ ret = NotCalled
    /\ ret' = Return(convert_tags_to_dict(arg.item))
    /\ arg' = [arg EXCEPT !.item = ItemAfter(arg.item)]
    /\ UNCHANGED <<databases, store, pc, queue, loaded, cur, prior, query, engine,
                   result, attached, seen>>

TagsNext == ConvertTags

SpecTags == TagsInit /\ [][TagsNext]_vars

\* a key/value record: a dict with a Key and a Value
IsTagRecord(v) == v.k = "dict" /\ DictHas(v, "Key") /\ DictHas(v, "Value")
\* the item has tags and they are a list
HasTagsList(item) == HasAttr(item, "tags") /\ GetAttr(item, "tags").k = "list"
\* the item has tags and they are a list of key/value records
HasTagRecords(item) ==
    /\ HasTagsList(item)
    /\ \A i \in 1..Len(GetAttr(item, "tags").l) : IsTagRecord(GetAttr(item, "tags").l[i])

\* C10, as claimed: an item without tags, or whose tags are not a list of
\* key/value records, is returned as it is.
C10_UnchangedUnlessTagRecords ==
    (Called /\ ~HasTagRecords(arg.item)) => ret.value = arg.item

\* C10, amended: an item without tags, or whose tags are not a list, is
\* returned as it is; an item whose tags are a list is wrapped in an
\* ObjectProxy, whatever the elements of the list are.
C10_UnchangedUnlessList ==
    Called =>
        /\ ~HasTagsList(arg.item) => ret.value = arg.item
        /\ HasTagsList(arg.item) =>
               (ret.value.cls = "ObjectProxy" /\ ret.value.source = <<arg.item>>)

\* an item whose tags are a dict comes back as it is
C10_Witness ==
    /\ Called
    /\ HasAttr(arg.item, "tags") /\ GetAttr(arg.item, "tags").k = "dict"
    /\ ret.value = arg.item

\* the tags of the item the call was given, and the keys of its records
ArgTags == GetAttr(arg.item, "tags").l
ArgTagKeys == {DictGet(ArgTags[i], "Key").s : i \in 1..Len(ArgTags)}
\* the value of the last record of the list that has the key
LastValue(key) ==
    DictGet(ArgTags[CHOOSE i \in 1..Len(ArgTags) :
                        /\ DictGet(ArgTags[i], "Key").s = key
                        /\ \A j \in (i + 1)..Len(ArgTags) : DictGet(ArgTags[j], "Key").s # key],
            "Value")
\* the view reports tags as the mapping of the records, the last record of a
\* key giving its value
ReportsTagsMapping ==
    LET tags == GetAttr(ret.value, "tags")
    IN /\ tags.k = "dict"
       /\ {tags.l[i].s : i \in 1..Len(tags.l)} = ArgTagKeys
       /\ Len(tags.l) = Cardinality(ArgTagKeys)
       /\ \A key \in ArgTagKeys : DictGet(tags, key) = LastValue(key)
\* every other field reads on the view as it reads on the item
ForwardsOtherFields ==
    \A name \in FieldNames \ {"tags"} :
        HasAttr(arg.item, name) =>
            (HasAttr(ret.value, name) /\ GetAttr(ret.value, name) = GetAttr(arg.item, name))

\* C11: for an item whose tags are a list of key/value records, the view
\* reports tags as the mapping built in list order, the last record of a key
\* winning, and every field other than tags reads as it reads on the item.
C11_TagsMappingAndForwarding ==
    (Called /\ HasTagRecords(arg.item)) => (ReportsTagsMapping /\ ForwardsOtherFields)

\* The first half of C11 alone.
C11_TagsMapping ==
    (Called /\ HasTagRecords(arg.item)) => ReportsTagsMapping

\* C12: convert_tags_to_dict does not change its input: after the call the
\* item's tags, a list when they were a list, and every other field hold the
\* values they held before the call.
C12_InputNotMutated ==
    [][(ret.kind = "none" /\ ret'.kind # "none") =>
          /\ arg'.item = arg.item
          /\ \A name \in FieldNames :
                HasAttr(arg.item, name) =>
                    /\ HasAttr(arg'.item, name)
                    /\ GetAttr(arg'.item, name) = GetAttr(arg.item, name)
                    /\ GetAttr(arg.item, name).k = "list" => GetAttr(arg'.item, name).k = "list"]_vars

\* a call returned a view whose tags are a mapping while the item it was given
\* still has its list of two records
C12_Witness ==
    /\ Called
    /\ HasTagRecords(arg.item)
    /\ ret.value.cls = "ObjectProxy"
    /\ GetAttr(ret.value, "tags").k = "dict"
    /\ GetAttr(arg.item, "tags").k = "list"
    /\ Len(GetAttr(arg.item, "tags").l) = 2

(***************************************************************************)
(* get_columns_list on its own: the call is given a resource model, whose  *)
(* identifiers and attributes are any names in any order, a name of one    *)
(* group being free to appear in the other.                                *)
(***************************************************************************)
NameLists ==
    UNION {[1..n -> {ColumnNames[i] : i \in 1..Len(ColumnNames)}] : n \in 0..MaxColumns}
Models == [identifiers : NameLists, attributes : NameLists]

ColumnsInit ==
    /\ EngineInit
    /\ arg \in {[fn |-> "get_columns_list", model |-> m] : m \in Models}
    /\ ret = NotCalled

\* get_columns_list(resource, collection) is called
GetColumnsList ==
    /\ ret = NotCalled
    /\ ret' = Return(PyList(get_columns_list(arg.model)))
    /\ UNCHANGED <<databases, store, pc, queue, loaded, cur, prior, query, engine,
                   result, attached, seen, arg>>

ColumnsNext == GetColumnsList

SpecColumns == ColumnsInit /\ [][ColumnsNext]_vars

\* how many times the name occurs in the list
Occurrences(names, name) == Cardinality({i \in 1..Len(names) : names[i] = name})

\* C13: get_columns_list returns the identifier names in lexicographic
\* order, then the attribute names in the order the model gives them;
\* every name of either group is there as many times as the group has it,
\* also when an identifier and an attribute have the same name.
C13_SortedIdentifiersThenAttributes ==
    Called =>
        LET identifiers == arg.model.identifiers
            attributes == arg.model.attributes
            columns == ret.value.l
            n == Len(identifiers)
        IN /\ ret.kind = "return"
           /\ Len(columns) = n + Len(attributes)
           /\ \A i \in 1..n, j \in 1..n : i < j => Rank(columns[i]) <= Rank(columns[j])
           /\ \A name \in {identifiers[i] : i \in 1..n} :
                 Occurrences(SubSeq(columns, 1, n), name) = Occurrences(identifiers, name)
           /\ \A i \in 1..Len(attributes) : columns[n + i] = attributes[i]

\* the call was given two identifiers out of order, one of them also the name
\* of an attribute, and returned that name twice
C13_Witness ==
    /\ Called
    /\ Len(arg.model.identifiers) = 2
    /\ Rank(arg.model.identifiers[1]) > Rank(arg.model.identifiers[2])
    /\ Len(arg.model.attributes) = 2
    /\ arg.model.attributes[2] = arg.model.identifiers[1]
    /\ Occurrences(ret.value.l, arg.model.identifiers[1]) = 2
    /\ ret.value.l[1] = arg.model.identifiers[2]

(***************************************************************************)
(* Properties of the session's attached databases and of execute.          *)
(***************************************************************************)
\* C14: in every state of the session, from the state the constructor leaves
\* on, no region's database file is attached under more than one entry of
\* the database listing.
C14_OneAttachmentPerRegion ==
    \A i, j \in 1..Len(databases) :
        databases[i].file = databases[j].file => i = j

\* meta.tables of the execute call under way or just over: the references
\* loaded so far, then the ones still to load
TablesOfCall == [i \in 1..Len(loaded) |-> loaded[i].table] \o queue

\* C15: execute submits the query only after the load of every reference of
\* meta.tables has completed, the loads running one at a time in the order of
\* meta.tables; when a load fails the query is not submitted.
C15_SubmitAfterAllLoads ==
    [][/\ (query.kind = "none" /\ query'.kind # "none") =>
             /\ pc = "load" /\ queue = <<>> /\ result = NoResult
             /\ TablesOfCall' = TablesOfCall
       /\ loaded' # loaded /\ loaded' # <<>> =>
             /\ pc \in {"load", "fetched"} /\ queue # <<>>
             /\ Len(loaded') = Len(loaded) + 1
             /\ loaded'[Len(loaded')].table = Head(queue)
             /\ queue' = Tail(queue)
       /\ pc # "idle" => TablesOfCall' = TablesOfCall
       /\ pc' \in {"created", "fetched"} => cur'.table_name = Head(queue').table
       /\ LoadFailed' => query' = NoQuery
       /\ pc = "idle" /\ pc' = "idle" => query' = query]_vars

\* execute loaded two different tables, one after the other, and then gave the
\* query to the engine
C15_Witness ==
    /\ Submitted
    /\ Len(loaded) = 2
    /\ ~SameTable(loaded[1].table, loaded[2].table)
    /\ queue = <<>>

\* the step completes the load of a table reference
LoadCompletes == Len(loaded') = Len(loaded) + 1
\* the load the step completes
CompletedLoad == loaded'[Len(loaded')]

\* C16: a load leaves the cached table alone, without enumerating the
\* collection, exactly when is_fresh_enough says the table is fresh, and
\* replaces it otherwise; is_fresh_enough says stale at every load, so that
\* every load that completes has enumerated the collection and replaced the
\* table.
C16_RefreshOnlyWhenStale ==
    [][LoadCompletes =>
          LET table == CompletedLoad.table
              file == FileOf(databases', RegionOf(table))
          IN /\ CompletedLoad.fresh = is_fresh_enough(RegionOf(table), table.table)
             /\ CompletedLoad.fresh => (store' = store /\ pc = "load")
             /\ ~CompletedLoad.fresh
             /\ pc = "fetched"
             /\ store'[file][table.table].exists
             /\ Len(store'[file][table.table].rows) = Len(CompletedLoad.items)
             /\ store'[file][table.table].columns = cur.columns]_vars

\* a table the call had loaded with two items is loaded again, the collection
\* now being empty, and is replaced by the empty table
C16_Witness ==
    /\ Len(loaded) = 2
    /\ SameTable(loaded[1].table, loaded[2].table)
    /\ ~loaded[1].fresh /\ ~loaded[2].fresh
    /\ Len(loaded[1].items) = 2 /\ Len(loaded[2].items) = 0
    /\ store[FileOf(databases, RegionOf(loaded[2].table))][loaded[2].table.table].exists
    /\ store[FileOf(databases, RegionOf(loaded[2].table))][loaded[2].table.table].rows = <<>>

\* the names of the database listing
SchemaNames(dbs) == {dbs[i].name : i \in 1..Len(dbs)}

\* C17: the attached schemas only grow: whatever the step (of execute, of a
\* load, of attach_region, failing or not), every schema attached before it
\* is attached after it, to the same file.
C17_AttachedGrowsMonotonically ==
    [][/\ SchemaNames(databases) \subseteq SchemaNames(databases')
       /\ \A i \in 1..Len(databases) : \E j \in 1..Len(databases') : databases'[j] = databases[i]
       /\ attached \subseteq attached'
       /\ attached' \subseteq SchemaNames(databases')]_vars

\* a load attached the other region and then failed at the provider: both
\* regions are attached
C17_Witness ==
    /\ LoadFailed
    /\ result.kind = "ProviderError"
    /\ Len(databases) = 3
    /\ {default_region, OtherRegion} \subseteq SchemaNames(databases)
    /\ RegionOf(Head(queue)) = OtherRegion

\* the step is a load_table call failing with the unknown-collection QueryError
UnknownCollectionFailure ==
    /\ pc = "load" /\ queue # <<>>
    /\ UnknownCollectionName(Head(queue).table)
    /\ result'.kind = "QueryError"
    /\ LET parts == SplitFirst(Head(queue).table)
       IN result'.msg = UnknownCollection(parts[2], parts[1])

\* C18: a load_table call that fails with the unknown-collection QueryError
\* leaves the database listing and every cached table as they were, also when
\* the reference names a region that is not attached.
C18_UnknownCollectionChangesNothing ==
    [][UnknownCollectionFailure =>
          /\ databases' = databases
          /\ attached' = attached
          /\ store' = store
          /\ pc' = "idle"]_vars

\* the call failed with the unknown-collection error on a reference to the
\* other region, which is still not attached, after loading a table of the
\* default region, which is still there
C18_Witness ==
    /\ LoadFailed
    /\ result.kind = "QueryError"
    /\ UnknownCollectionName(Head(queue).table)
    /\ result.msg = UnknownCollection(SplitFirst(Head(queue).table)[2], SplitFirst(Head(queue).table)[1])
    /\ RegionOf(Head(queue)) = OtherRegion
    /\ OtherRegion \notin SchemaNames(databases)
    /\ Len(loaded) = 1
    /\ store[FileOf(databases, RegionOf(loaded[1].table))][loaded[1].table.table].exists

(***************************************************************************)
(* json_get on input that decodes.                                         *)
(***************************************************************************)
\* C19: for every first argument that is valid JSON and every key that is an
\* integer or a string, json_get returns a value and raises nothing, also
\* for an integer key on an object or a scalar and for a string key on an
\* array or a scalar.
C19_TotalOnValidJson ==
    (Called /\ Decodes /\ arg.field.k \in {"int", "str"}) => ret.kind = "return"

====
